---- MODULE Spec2Model ----
(***************************************************************************)
(* A model of django-cravensworth's assignment core:                       *)
(*   cravensworth/core/models.py      Context, Allocation, Audience,       *)
(*                                    Experiment                           *)
(*   cravensworth/core/experiment.py  _CravensworthState,                  *)
(*                                    _extract_overrides, get_state        *)
(*                                                                         *)
(* Python values are modelled as follows.  A str is a TLA+ string; None is *)
(* the sentinel NONE (a string no program string of the model equals).     *)
(* A call that can raise returns a record whose field exc is "" on a       *)
(* normal return and the exception's class name otherwise.                 *)
(***************************************************************************)
EXTENDS Integers, Sequences, FiniteSets, TLC

VARIABLES
    experiments,  \* _CravensworthState._experiments : name -> Experiment
    overrides,    \* _CravensworthState._overrides   : name -> variant
    data,         \* Context.data, one per Context object
    identities,   \* Context._identities, one per Context object
    names,        \* Audience.evaluator.names (ClassVar: one for all audiences)
    threads,      \* per thread: where its determine_variant call stands
    returned,     \* history: first value identity() returned per (keypath, seed)
    last,         \* the call being made (status "call") or made last ("return")
    settings,     \* the CRAVENSWORTH settings: EXPERIMENTS, ENABLED_IPS
    request       \* the HttpRequest: COOKIES, META, user, _cravensworth_state

vars == <<experiments, overrides, data, identities, names, threads, returned,
          last, settings, request>>

NONE == "<None>"

\* the values of settings and request where no request is being served
NoSettings == [EXPERIMENTS |-> <<>>]
NoRequest == [resolved |-> FALSE]

----------------------------------------------------------------------------
(* Strings *)

Char(s, i) == SubSeq(s, i, i)

WordChars ==
    {"a", "b", "c", "d", "e", "f", "g", "h", "i", "j", "k", "l", "m",
     "n", "o", "p", "q", "r", "s", "t", "u", "v", "w", "x", "y", "z",
     "A", "B", "C", "0", "1", "2", "7", "_"}

Whitespace == {" ", "\n", "\t"}

\* str(x) / f'{x}' of a value that is a str or None
Str(x) == IF x = NONE THEN "None" ELSE x

\* `x or ""` of a value that is a str or None
OrEmpty(x) == IF x = NONE \/ x = "" THEN "" ELSE x

\* re.compile(r'^[\w]+$', re.ASCII).match(s): `$` also matches just before
\* one trailing newline.
NamePatternMatch(s) ==
    LET body == IF Len(s) > 0 /\ Char(s, Len(s)) = "\n"
                THEN SubSeq(s, 1, Len(s) - 1) ELSE s
    IN  /\ Len(body) >= 1
        /\ \A i \in 1..Len(body) : Char(body, i) \in WordChars

\* re.compile(r'^[\w\.]+$', re.ASCII).match(s)
SymbolPatternMatch(s) ==
    LET body == IF Len(s) > 0 /\ Char(s, Len(s)) = "\n"
                THEN SubSeq(s, 1, Len(s) - 1) ELSE s
    IN  /\ Len(body) >= 1
        /\ \A i \in 1..Len(body) : Char(body, i) \in WordChars \cup {"."}

\* str.split(sep): every occurrence of sep separates, empty pieces are kept
RECURSIVE SplitOn(_, _, _, _)
SplitOn(s, sep, i, cur) ==
    IF i > Len(s) THEN <<cur>>
    ELSE IF Char(s, i) = sep THEN <<cur>> \o SplitOn(s, sep, i + 1, "")
    ELSE SplitOn(s, sep, i + 1, cur \o Char(s, i))

\* str.split(): runs of whitespace separate, empty pieces are dropped
RECURSIVE SplitWs(_, _, _)
SplitWs(s, i, cur) ==
    IF i > Len(s) THEN (IF cur = "" THEN <<>> ELSE <<cur>>)
    ELSE IF Char(s, i) \in Whitespace
         THEN (IF cur = "" THEN <<>> ELSE <<cur>>) \o SplitWs(s, i + 1, "")
    ELSE SplitWs(s, i + 1, cur \o Char(s, i))

\* str.rsplit(sep, maxsplit=1): split at the last occurrence of sep, if any
RSplit1(s, sep) ==
    LET at == {i \in 1..Len(s) : Char(s, i) = sep}
    IN  IF at = {} THEN <<s>>
        ELSE LET k == CHOOSE i \in at : \A j \in at : j <= i
             IN  <<SubSeq(s, 1, k - 1), SubSeq(s, k + 1, Len(s))>>

----------------------------------------------------------------------------
(* Allocation, Audience: pure parts *)

Alloc(v, p) == [variant |-> v, percent |-> p]
Aud(r, as) == [rule |-> r, allocations |-> as]

\* Allocation.validate(): "" when it passes, else the exception raised
Allocation_validate(al) ==
    IF ~NamePatternMatch(al.variant) THEN "ValueError"
    ELSE IF al.percent < 0 THEN "ValueError"
    ELSE IF al.percent > 100 THEN "ValueError"
    ELSE ""

RECURSIVE SumPercent(_)
SumPercent(as) ==
    IF as = <<>> THEN 0 ELSE Head(as).percent + SumPercent(Tail(as))

\* Audience.validate(): validate_allocations is the only field validator
Audience_validate(a) ==
    IF \E i \in 1..Len(a.allocations) :
           Allocation_validate(a.allocations[i]) # ""
    THEN "ValueError"
    ELSE IF SumPercent(a.allocations) # 100 THEN "ValueError"
    ELSE ""

\* the comparison of one loop iteration of Audience.determine_variant
InRange(range_start, rangekey, range_end) ==
    range_start < rangekey /\ rangekey <= range_end

\* the loop of Audience.determine_variant from allocation i on
RECURSIVE WalkAllocations(_, _, _, _)
WalkAllocations(as, i, range_start, rangekey) ==
    IF i > Len(as) THEN NONE
    ELSE LET range_end == range_start + as[i].percent
         IN  IF InRange(range_start, rangekey, range_end)
             THEN as[i].variant
             ELSE WalkAllocations(as, i + 1, range_end, rangekey)

\* a variant of Audience.determine_variant whose first range starts at 0
Audience_determine_variant_from0(a, rangekey) ==
    WalkAllocations(a.allocations, 1, 0, rangekey)

Audience_determine_variant(a, rangekey) ==
    WalkAllocations(a.allocations, 1, -1, rangekey)

----------------------------------------------------------------------------
(* Context *)

\* Context values: a str, None, or a mapping / object with named members.
\* A mapping is a sequence of <<key, value>> pairs with distinct keys, in
\* insertion order, as a Python dict is.
PyStr(s) == [t |-> "str", v |-> s]
PyNone == [t |-> "none"]
PyMap(m) == [t |-> "map", m |-> m]

HasKey(m, key) == \E i \in 1..Len(m) : m[i][1] = key

\* Mapping.get(key) / getattr(obj, key, None)
MapGet(m, key) ==
    IF HasKey(m, key)
    THEN m[CHOOSE i \in 1..Len(m) : m[i][1] = key][2]
    ELSE PyNone

\* the loop of Context._get_key_by_path from key i on; a str has none of the
\* members the model's keypaths name, so getattr gives None
RECURSIVE WalkKeys(_, _, _)
WalkKeys(current, keys, i) ==
    IF i > Len(keys) THEN current
    ELSE LET next == IF current.t = "map" THEN MapGet(current.m, keys[i])
                     ELSE PyNone
         IN  IF next.t = "none" THEN PyNone
             ELSE WalkKeys(next, keys, i + 1)

get_key_by_path(obj, path) == WalkKeys(obj, SplitOn(path, ".", 1, ""), 1)

\* repr() of a value inside a dict, and f'{value}'
RECURSIVE Repr(_)
RECURSIVE ReprItems(_, _)
ReprItems(m, i) ==
    IF i > Len(m) THEN ""
    ELSE (IF i > 1 THEN ", " ELSE "")
         \o "'" \o m[i][1] \o "': " \o Repr(m[i][2]) \o ReprItems(m, i + 1)
Repr(val) ==
    IF val.t = "str" THEN "'" \o val.v \o "'"
    ELSE IF val.t = "none" THEN "None"
    ELSE "{" \o ReprItems(val.m, 1) \o "}"

Format(val) == IF val.t = "str" THEN val.v ELSE Repr(val)

\* rapidhash is an external 64-bit hash.  The model keeps what the program
\* relies on, a fixed function of the bytes hashed, and computes a
\* polynomial hash in its place.
Alphabet ==
    <<"a", "b", "c", "d", "e", "f", "g", "h", "i", "j", "k", "l", "m",
      "n", "o", "p", "q", "r", "s", "t", "u", "v", "w", "x", "y", "z",
      "A", "B", "C", "N", "0", "1", "2", "7", "_", ".", ":", " ", "'",
      "{", "}", ",">>

CharCode(c) ==
    IF \E i \in 1..Len(Alphabet) : Alphabet[i] = c
    THEN CHOOSE i \in 1..Len(Alphabet) : Alphabet[i] = c
    ELSE 0

RECURSIVE HashFrom(_, _, _)
HashFrom(s, i, h) ==
    IF i > Len(s) THEN h
    ELSE HashFrom(s, i + 1, (h * 31 + CharCode(Char(s, i))) % 65521)

rapidhash(s) == HashFrom(s, 1, 7)

HashBuckets == 100

\* random.randint(0, 99): any of these
RandomDraws == 0..(HashBuckets - 1)

\* Context._calculate_identity; draw is what random.randint returns
calculate_identity(d, keypath, seed, draw) ==
    IF keypath = "random" THEN [exc |-> "", val |-> draw]
    ELSE LET identity == get_key_by_path(PyMap(d), keypath)
         IN  IF identity.t = "none" THEN [exc |-> "KeyError", val |-> NONE]
             ELSE [exc |-> "",
                   val |-> rapidhash(Format(identity) \o Str(seed))
                           % HashBuckets]

CacheKey(keypath, seed) == keypath \o OrEmpty(seed)

\* a variant of Context.identity that computes and stores on every call
Context_identity_recompute(ids, d, keypath, seed, draw) ==
    LET cachekey == CacheKey(keypath, seed)
        r == calculate_identity(d, keypath, seed, draw)
    IN  IF r.exc # ""
        THEN [exc |-> r.exc, val |-> NONE, identities |-> ids]
        ELSE [exc |-> "", val |-> r.val,
              identities |-> [k \in DOMAIN ids \cup {cachekey} |->
                                 IF k = cachekey THEN r.val ELSE ids[k]]]

\* Context.identity on a Context with cache ids and data d: the outcome and
\* the cache after the call
Context_identity(ids, d, keypath, seed, draw) ==
    LET cachekey == CacheKey(keypath, seed)
    IN  IF cachekey \in DOMAIN ids
        THEN [exc |-> "", val |-> ids[cachekey], identities |-> ids]
        ELSE LET r == calculate_identity(d, keypath, seed, draw)
             IN  IF r.exc # ""
                 THEN [exc |-> r.exc, val |-> NONE, identities |-> ids]
                 ELSE [exc |-> "", val |-> r.val,
                       identities |-> ids @@ (cachekey :> r.val)]

----------------------------------------------------------------------------
(* Rules.  A rule is held as the expression simpleeval parses it to:       *)
(*   [op |-> "none"]                      rule = None                       *)
(*   [op |-> "eq", name, lit]             name == "lit"                     *)
(*   [op |-> "name", name]                name        (the value itself)    *)

RuleNone == [op |-> "none"]
RuleEq(n, l) == [op |-> "eq", name |-> n, lit |-> l]
RuleName(n) == [op |-> "name", name |-> n]

\* EvalWithCompoundTypes.eval with evaluator.names = nms
evaluator_eval(rule, nms) ==
    IF ~HasKey(nms, rule.name)
    THEN [exc |-> "NameNotDefined", val |-> FALSE, bool |-> FALSE]
    ELSE LET x == MapGet(nms, rule.name)
         IN  IF rule.op = "eq"
             THEN [exc |-> "", bool |-> TRUE,
                   val |-> (x.t = "str" /\ x.v = rule.lit)]
             ELSE [exc |-> "", bool |-> FALSE, val |-> FALSE]

\* the part of Audience.matches after evaluator.names is set
matches_eval(rule, nms) ==
    LET result == evaluator_eval(rule, nms)
    IN  IF result.exc # "" THEN [exc |-> result.exc, val |-> FALSE]
        ELSE IF ~result.bool THEN [exc |-> "TypeError", val |-> FALSE]
        ELSE [exc |-> "", val |-> result.val]

----------------------------------------------------------------------------
(* Experiment *)

\* Experiment(...) with __post_init__
Experiment(name, identity, variants, audiences, seed) ==
    [name |-> name, identity |-> identity, variants |-> variants,
     audiences |-> audiences,
     seed |-> IF seed = NONE THEN name ELSE seed]

Contains(seq, x) == \E i \in 1..Len(seq) : seq[i] = x

validate_name(e) == IF NamePatternMatch(e.name) THEN "" ELSE "ValueError"

validate_variants(e) == IF Len(e.variants) < 1 THEN "ValueError" ELSE ""

validate_identity(e) ==
    IF e.identity = "random" THEN ""
    ELSE IF ~SymbolPatternMatch(e.identity) THEN "ValueError"
    ELSE ""

\* a variant of validate_audiences that lets the last audience keep a rule
validate_audiences_any_last(e) ==
    LET n == Len(e.audiences)
    IN  IF n = 0 THEN "ValueError"
        ELSE IF \E i \in 1..(n - 1) : e.audiences[i].rule.op = "none"
        THEN "ValueError"
        ELSE IF \E i \in 1..n : \E j \in 1..Len(e.audiences[i].allocations) :
                   LET al == e.audiences[i].allocations[j]
                   IN  \/ Allocation_validate(al) # ""
                       \/ ~Contains(e.variants, al.variant)
        THEN "ValueError"
        ELSE ""

\* a variant of validate_audiences without the test for declared variants
validate_audiences_any_variant(e) ==
    LET n == Len(e.audiences)
    IN  IF n = 0 THEN "ValueError"
        ELSE IF \E i \in 1..(n - 1) : e.audiences[i].rule.op = "none"
        THEN "ValueError"
        ELSE IF e.audiences[n].rule.op # "none" THEN "ValueError"
        ELSE IF \E i \in 1..n : \E j \in 1..Len(e.audiences[i].allocations) :
                   Allocation_validate(e.audiences[i].allocations[j]) # ""
        THEN "ValueError"
        ELSE ""

validate_audiences(e) ==
    LET n == Len(e.audiences)
    IN  IF n = 0 THEN "ValueError"
        ELSE IF \E i \in 1..(n - 1) : e.audiences[i].rule.op = "none"
        THEN "ValueError"
        ELSE IF e.audiences[n].rule.op # "none" THEN "ValueError"
        ELSE IF \E i \in 1..n : \E j \in 1..Len(e.audiences[i].allocations) :
                   LET al == e.audiences[i].allocations[j]
                   IN  \/ Allocation_validate(al) # ""
                       \/ ~Contains(e.variants, al.variant)
        THEN "ValueError"
        ELSE ""

\* Experiment.validate(): the field validators in field order
Experiment_validate(e) ==
    IF validate_name(e) # "" THEN validate_name(e)
    ELSE IF validate_identity(e) # "" THEN validate_identity(e)
    ELSE IF validate_variants(e) # "" THEN validate_variants(e)
    ELSE validate_audiences(e)

\* a variant of the override test that accepts any non-null override
OverrideApplies_undeclared(e, override) == override # NONE

\* the override test of Experiment.determine_variant
OverrideApplies(e, override) ==
    override # NONE /\ Contains(e.variants, override)

\* a variant of the audience loop that computes the identity before it asks
\* whether the audience matches
RECURSIVE ScanAudiences_identity_first(_, _, _, _, _, _, _)
ScanAudiences_identity_first(e, c, d, ids, i, nm, draw) ==
    IF i > Len(e.audiences)
    THEN [exc |-> "", val |-> NONE, identities |-> ids, names |-> nm,
          matched |-> 0, evaluated |-> <<>>]
    ELSE LET a == e.audiences[i]
             nm2 == IF a.rule.op = "none" THEN nm ELSE c
             m == IF a.rule.op = "none" THEN [exc |-> "", val |-> TRUE]
                  ELSE matches_eval(a.rule, d)
             r == Context_identity(ids, d, e.identity, e.seed, draw)
         IN  IF m.exc # ""
             THEN [exc |-> m.exc, val |-> NONE, identities |-> r.identities,
                   names |-> nm2, matched |-> 0, evaluated |-> <<i>>]
             ELSE IF m.val
             THEN [exc |-> r.exc,
                   val |-> IF r.exc # "" THEN NONE
                           ELSE Audience_determine_variant(a, r.val),
                   identities |-> r.identities, names |-> nm2,
                   matched |-> i, evaluated |-> <<i>>]
             ELSE LET rest == ScanAudiences_identity_first(
                                  e, c, d, r.identities, i + 1, nm2, draw)
                  IN  [rest EXCEPT !.evaluated = <<i>> \o @]

\* the audience loop of Experiment.determine_variant from audience i on, run
\* without interruption on Context c: nm is evaluator.names on entry, seen
\* the audiences whose matches() has been called
RECURSIVE ScanAudiences(_, _, _, _, _, _, _)
ScanAudiences(e, c, d, ids, i, nm, draw) ==
    IF i > Len(e.audiences)
    THEN [exc |-> "", val |-> NONE, identities |-> ids, names |-> nm,
          matched |-> 0, evaluated |-> <<>>]
    ELSE LET a == e.audiences[i]
             nm2 == IF a.rule.op = "none" THEN nm ELSE c
             m == IF a.rule.op = "none" THEN [exc |-> "", val |-> TRUE]
                  ELSE matches_eval(a.rule, d)
         IN  IF m.exc # ""
             THEN [exc |-> m.exc, val |-> NONE, identities |-> ids,
                   names |-> nm2, matched |-> 0, evaluated |-> <<i>>]
             ELSE IF m.val
             THEN LET r == Context_identity(ids, d, e.identity, e.seed, draw)
                  IN  [exc |-> r.exc,
                       val |-> IF r.exc # "" THEN NONE
                               ELSE Audience_determine_variant(a, r.val),
                       identities |-> r.identities, names |-> nm2,
                       matched |-> i, evaluated |-> <<i>>]
             ELSE LET rest == ScanAudiences(e, c, d, ids, i + 1, nm2, draw)
                  IN  [rest EXCEPT !.evaluated = <<i>> \o @]

\* a variant of Experiment.determine_variant that looks at the override only
\* after the audiences have been scanned
Experiment_determine_variant_override_late(e, c, d, ids, nm, override, draw) ==
    LET r == ScanAudiences(e, c, d, ids, 1, nm, draw)
    IN  IF r.exc = "" /\ OverrideApplies(e, override)
        THEN [r EXCEPT !.val = override]
        ELSE r

\* a variant of Experiment.determine_variant that refuses an override that
\* is not a declared variant
Experiment_determine_variant_strict(e, c, d, ids, nm, override, draw) ==
    IF override # NONE /\ ~Contains(e.variants, override)
    THEN [exc |-> "ValueError", val |-> NONE, identities |-> ids,
          names |-> nm, matched |-> 0, evaluated |-> <<>>]
    ELSE IF override # NONE
    THEN [exc |-> "", val |-> override, identities |-> ids, names |-> nm,
          matched |-> 0, evaluated |-> <<>>]
    ELSE ScanAudiences(e, c, d, ids, 1, nm, draw)

\* Experiment.determine_variant(context, override), context being Context c
Experiment_determine_variant(e, c, d, ids, nm, override, draw) ==
    IF OverrideApplies(e, override)
    THEN [exc |-> "", val |-> override, identities |-> ids, names |-> nm,
          matched |-> 0, evaluated |-> <<>>]
    ELSE ScanAudiences(e, c, d, ids, 1, nm, draw)

----------------------------------------------------------------------------
(* Bounds and input pools *)

MaxAllocations == 3
MaxAudiences == 2

SeqsUpTo(S, n) == UNION {[1..k -> S] : k \in 0..n}

AllocationPool ==
    {Alloc("A", 10), Alloc("B", 30), Alloc("C", 60),
     Alloc("A", 100), Alloc("B", 0), Alloc("C", 50)}

AllocationLists == SeqsUpTo(AllocationPool, MaxAllocations) \ {<<>>}

ExampleAllocations == <<Alloc("A", 10), Alloc("B", 30), Alloc("C", 60)>>

RangeKeys == 0..(HashBuckets - 1)

RulePool == {RuleNone, RuleEq("locale", "en"), RuleName("locale")}

\* audiences of the experiments validated: with and without a rule, summing
\* to 100 or not
AudiencePool ==
    {Aud(r, as) : r \in {RuleNone, RuleEq("locale", "en")},
                  as \in {ExampleAllocations, <<Alloc("A", 100)>>,
                          <<Alloc("A", 50)>>}}

ValidatedExperiments ==
    {Experiment(n, id, vs, as, NONE) :
        n \in {"exp", "bad name"},
        id \in {"random", "user.id", "user id"},
        vs \in {<<"A", "B", "C">>, <<"A">>, <<>>},
        as \in SeqsUpTo(AudiencePool, MaxAudiences)}

EmptyCache == [k \in {} |-> 0]

\* allocations of the audiences validated: well-formed ones, and ones with a
\* variant or a percent that validate_variant / validate_percent looks at
CheckedAllocationPool ==
    {Alloc("A", 100), Alloc("B_1", 50), Alloc("", 100), Alloc("a b", 50),
     Alloc("A\n", 100), Alloc("A", 101), Alloc("B", -1)}

ValidatedAudiences ==
    {Aud(r, as) : r \in {RuleNone, RuleEq("locale", "en")},
                  as \in SeqsUpTo(CheckedAllocationPool, MaxAllocations)}

----------------------------------------------------------------------------
(* _extract_overrides *)

\* the loop over cookie.split() from token i on; ovs is the dict built so far
RECURSIVE ParseOverrides(_, _, _)
ParseOverrides(tokens, i, ovs) ==
    IF i > Len(tokens) THEN [exc |-> "", val |-> ovs]
    ELSE LET parts == RSplit1(tokens[i], ":")
         IN  IF Len(parts) # 2
             THEN [exc |-> "ValueError", val |-> EmptyCache]
             ELSE ParseOverrides(tokens, i + 1,
                                 [k \in DOMAIN ovs \cup {parts[1]} |->
                                     IF k = parts[1] THEN parts[2]
                                     ELSE ovs[k]])

\* the ENABLED_IPS setting: None, or a list of addresses
IpsUnset == [set |-> FALSE, ips |-> {}]
IpsList(ips) == [set |-> TRUE, ips |-> ips]

\* a variant of _extract_overrides that reads the cookie of every request
extract_overrides_unrestricted(req, enabled_ips) ==
    IF req.cookie = NONE THEN [exc |-> "", val |-> EmptyCache]
    ELSE ParseOverrides(SplitWs(req.cookie, 1, ""), 1, EmptyCache)

\* _extract_overrides(request): req.cookie is COOKIES.get(cookie_name)
extract_overrides(req, enabled_ips) ==
    IF enabled_ips.set /\ req.addr \notin enabled_ips.ips
    THEN [exc |-> "", val |-> EmptyCache]
    ELSE IF req.cookie = NONE THEN [exc |-> "", val |-> EmptyCache]
    ELSE ParseOverrides(SplitWs(req.cookie, 1, ""), 1, EmptyCache)

MaxTokens == 2

TokenPool == {"sw:on", "sw:off", "exp:A", "sw", "a:b:c"}

RECURSIVE Join(_, _)
Join(tokens, sep) ==
    IF tokens = <<>> THEN ""
    ELSE IF Len(tokens) = 1 THEN tokens[1]
    ELSE tokens[1] \o sep \o Join(Tail(tokens), sep)

CookiePool ==
    {Join(ts, " ") : ts \in SeqsUpTo(TokenPool, MaxTokens)}
    \cup {NONE, " sw:on  exp:A\n"}

RequestPool ==
    {[cookie |-> c, addr |-> a] : c \in CookiePool,
                                  a \in {"10.0.0.1", "10.0.0.2"}}

EnabledIpsPool == {IpsUnset, IpsList({"10.0.0.1"})}

----------------------------------------------------------------------------
(* Calls of the pure methods of models.py and experiment.py *)

\* the call about to be made: a method and its arguments
ModelOps ==
    {"Audience.determine_variant", "Experiment.validate",
     "_extract_overrides", "Audience.validate"}

ModelCalls(op) ==
    CASE op = "Audience.determine_variant" ->
           {[op |-> op, status |-> "call",
             audience |-> Aud(RuleNone, as), rangekey |-> rangekey] :
               as \in AllocationLists, rangekey \in RangeKeys}
      [] op = "Experiment.validate" ->
           {[op |-> op, status |-> "call", experiment |-> e] :
               e \in ValidatedExperiments}
      [] op = "_extract_overrides" ->
           {[op |-> op, status |-> "call",
             request |-> r, enabled_ips |-> ips] :
               r \in RequestPool, ips \in EnabledIpsPool}
      [] op = "Audience.validate" ->
           {[op |-> op, status |-> "call", audience |-> a] :
               a \in ValidatedAudiences}

InitModels ==
    /\ experiments = <<>>
    /\ overrides = EmptyCache
    /\ data = <<>>
    /\ identities = <<>>
    /\ names = 0
    /\ threads = <<>>
    /\ returned = EmptyCache
    /\ \E op \in ModelOps : last \in ModelCalls(op)
    /\ settings = NoSettings
    /\ request = NoRequest

Calling(op) == last.op = op /\ last.status = "call"
Returned(op) == last.op = op /\ last.status = "return"

Call_Audience_determine_variant ==
    /\ Calling("Audience.determine_variant")
    /\ last' = [op |-> last.op, status |-> "return",
                audience |-> last.audience, rangekey |-> last.rangekey,
                val |-> Audience_determine_variant(last.audience,
                                                   last.rangekey)]
    /\ UNCHANGED <<experiments, overrides, data, identities, names, threads,
                   returned, settings, request>>

Call_Experiment_validate ==
    /\ Calling("Experiment.validate")
    /\ last' = [op |-> last.op, status |-> "return",
                experiment |-> last.experiment,
                exc |-> Experiment_validate(last.experiment)]
    /\ UNCHANGED <<experiments, overrides, data, identities, names, threads,
                   returned, settings, request>>

Call_extract_overrides ==
    /\ Calling("_extract_overrides")
    /\ LET r == extract_overrides(last.request, last.enabled_ips)
       IN  last' = [op |-> last.op, status |-> "return",
                    request |-> last.request,
                    enabled_ips |-> last.enabled_ips,
                    exc |-> r.exc, val |-> r.val]
    /\ UNCHANGED <<experiments, overrides, data, identities, names, threads,
                   returned, settings, request>>

Call_Audience_validate ==
    /\ Calling("Audience.validate")
    /\ last' = [op |-> last.op, status |-> "return",
                audience |-> last.audience,
                exc |-> Audience_validate(last.audience)]
    /\ UNCHANGED <<experiments, overrides, data, identities, names, threads,
                   returned, settings, request>>

NextModels ==
    \/ Call_Audience_determine_variant
    \/ Call_Experiment_validate
    \/ Call_extract_overrides
    \/ Call_Audience_validate

SpecModels == InitModels /\ [][NextModels]_vars

----------------------------------------------------------------------------
(* Audience.determine_variant *)

PrefixSum(as, i) == SumPercent(SubSeq(as, 1, i))

\* allocation i's range holds rangekey: (start, end] with start = -1 plus the
\* percents before it
Covers(as, i, rangekey) ==
    /\ PrefixSum(as, i - 1) - 1 < rangekey
    /\ rangekey <= PrefixSum(as, i) - 1

\* C2: for allocations summing to 100 and a rangekey in 0..99,
\* Audience.determine_variant returns the variant of the first allocation
\* whose cumulative range (start, end], counted from -1, holds the rangekey;
\* it is never absent, and [(A,10),(B,30),(C,60)] gives A for 0..9, B for
\* 10..39 and C for 40..99.
C2_BucketByCumulativeRange ==
    (/\ Returned("Audience.determine_variant")
     /\ SumPercent(last.audience.allocations) = 100)
    => LET as == last.audience.allocations
           r == last.rangekey
       IN  /\ last.val # NONE
           /\ \E i \in 1..Len(as) :
                 /\ Covers(as, i, r)
                 /\ \A j \in 1..(i - 1) : ~Covers(as, j, r)
                 /\ last.val = as[i].variant
           /\ as = ExampleAllocations
              => last.val = IF r <= 9 THEN "A"
                            ELSE IF r <= 39 THEN "B" ELSE "C"

C2_Witness ==
    /\ Returned("Audience.determine_variant")
    /\ last.audience.allocations = ExampleAllocations
    /\ last.rangekey = 37
    /\ last.val = "B"

----------------------------------------------------------------------------
(* Experiment.validate: placement of the ruleless audience *)

HasRule(a) == a.rule.op # "none"

\* every field check but the placement of the ruleless audience passes
OtherFieldsValid(e) ==
    /\ validate_name(e) = ""
    /\ validate_identity(e) = ""
    /\ validate_variants(e) = ""
    /\ Len(e.audiences) >= 1
    /\ \A i \in 1..Len(e.audiences) :
          \A j \in 1..Len(e.audiences[i].allocations) :
             /\ Allocation_validate(e.audiences[i].allocations[j]) = ""
             /\ Contains(e.variants, e.audiences[i].allocations[j].variant)

RulelessBeforeLast(e) ==
    \E i \in 1..(Len(e.audiences) - 1) : ~HasRule(e.audiences[i])

\* C6 as stated: an experiment whose audiences all have a rule, and that is
\* valid otherwise (its audiences validate too), validates; one with a
\* ruleless audience before the last does not.
C6_RuleOnLastValidates ==
    Returned("Experiment.validate")
    => LET e == last.experiment
       IN  /\ (/\ OtherFieldsValid(e)
               /\ \A i \in 1..Len(e.audiences) :
                     Audience_validate(e.audiences[i]) = ""
               /\ \A i \in 1..Len(e.audiences) : HasRule(e.audiences[i]))
              => last.exc = ""
           /\ RulelessBeforeLast(e) => last.exc = "ValueError"

\* C6 amended: Experiment.validate() fails when the last audience has a
\* rule and when a ruleless audience stands before the last; it succeeds
\* when the last audience, and only it, is ruleless and every other field
\* is valid.
C6_LastMustBeRuleless ==
    Returned("Experiment.validate")
    => LET e == last.experiment
           n == Len(e.audiences)
       IN  /\ (n >= 1 /\ HasRule(e.audiences[n])) => last.exc = "ValueError"
           /\ RulelessBeforeLast(e) => last.exc = "ValueError"
           /\ (/\ OtherFieldsValid(e)
               /\ ~HasRule(e.audiences[n])
               /\ ~RulelessBeforeLast(e))
              => last.exc = ""

C6_Witness ==
    /\ Returned("Experiment.validate")
    /\ OtherFieldsValid(last.experiment)
    /\ Len(last.experiment.audiences) = 2
    /\ \A i \in 1..2 : HasRule(last.experiment.audiences[i])
    /\ last.exc = "ValueError"

----------------------------------------------------------------------------
(* Experiment.determine_variant on one Experiment and one Context *)

ContextPool ==
    {<< <<"user", PyMap(<< <<"id", PyStr("7")>> >>)>>,
        <<"locale", PyStr("en")>> >>,
     << <<"user", PyStr("bob")>>, <<"locale", PyStr("fr")>> >>,
     << <<"locale", PyStr("en")>> >>,
     <<>>}

ExperimentPool ==
    {Experiment("exp", id, <<"A", "B", "C">>, as, NONE) :
        id \in {"random", "user.id"},
        as \in SeqsUpTo({Aud(r, al) : r \in RulePool,
                                      al \in {ExampleAllocations,
                                              <<Alloc("A", 50)>>}},
                        MaxAudiences)}

OverrideArgs == {NONE, "A", "Z"}

\* the draws a call can make: random.randint is called only for keypath
\* "random" with nothing cached
DrawsFor(ids, keypath, seed) ==
    IF keypath = "random" /\ CacheKey(keypath, seed) \notin DOMAIN ids
    THEN RandomDraws ELSE {0}

Init ==
    /\ experiments \in {<<e>> : e \in ExperimentPool}
    /\ overrides = EmptyCache
    /\ data \in {<<d>> : d \in ContextPool}
    /\ identities = <<EmptyCache>>
    /\ names = 0
    /\ threads = <<>>
    /\ returned = EmptyCache
    /\ last = [op |-> "init", status |-> "return"]
    /\ settings = NoSettings
    /\ request = NoRequest

Call_Experiment_determine_variant ==
    \E override \in OverrideArgs :
    \E draw \in DrawsFor(identities[1], experiments[1].identity,
                         experiments[1].seed) :
        LET e == experiments[1]
            r == Experiment_determine_variant(e, 1, data[1], identities[1],
                                              names, override, draw)
        IN  /\ identities' = [identities EXCEPT ![1] = r.identities]
            /\ names' = r.names
            /\ last' = [op |-> "Experiment.determine_variant",
                        status |-> "return", experiment |-> e,
                        override |-> override, exc |-> r.exc, val |-> r.val,
                        matched |-> r.matched, evaluated |-> r.evaluated,
                        before |-> identities[1], names_before |-> names]
            /\ UNCHANGED <<experiments, overrides, data, threads, returned,
                           settings, request>>

Next == Call_Experiment_determine_variant

Spec == Init /\ [][Next]_vars

WellFormed(e) ==
    /\ Experiment_validate(e) = ""
    /\ \A i \in 1..Len(e.audiences) : Audience_validate(e.audiences[i]) = ""

\* C1: determine_variant on a well-formed Experiment (validate() of it and of
\* each audience succeed), when no error is raised, returns one of the
\* experiment's variants; a result is absent only if no audience matched,
\* and with a ruleless last audience some audience always matches.
C1_WellFormedGivesDeclaredVariant ==
    (Returned("Experiment.determine_variant") /\ last.exc = "")
    => LET e == last.experiment
           n == Len(e.audiences)
       IN  /\ WellFormed(e)
              => /\ last.val # NONE
                 /\ Contains(e.variants, last.val)
           /\ (/\ \A i \in 1..n : Audience_validate(e.audiences[i]) = ""
               /\ last.val = NONE)
              => last.matched = 0
           /\ (/\ n >= 1
               /\ ~HasRule(e.audiences[n])
               /\ ~OverrideApplies(e, last.override))
              => last.matched >= 1

C1_Witness ==
    /\ Returned("Experiment.determine_variant")
    /\ last.exc = ""
    /\ WellFormed(last.experiment)
    /\ last.override = NONE
    /\ last.matched = 2
    /\ last.val = "C"

\* C3: with an override that is one of the experiment's variants,
\* determine_variant returns the override whatever the audiences and the
\* context are: no rule is evaluated, no identity is computed (the identity
\* cache is as before the call) and nothing is raised, also when the context
\* lacks the identity key.
C3_OverrideBypass ==
    (/\ Returned("Experiment.determine_variant")
     /\ last.override # NONE
     /\ Contains(last.experiment.variants, last.override))
    => /\ last.exc = ""
       /\ last.val = last.override
       /\ last.evaluated = <<>>
       /\ identities[1] = last.before
       /\ names = last.names_before

C3_Witness ==
    /\ Returned("Experiment.determine_variant")
    /\ last.override = "A"
    /\ last.experiment.identity = "user.id"
    /\ data[1] = <<>>
    /\ Len(last.experiment.audiences) >= 1
    /\ ~HasRule(last.experiment.audiences[1])
    /\ last.val = "A"
    /\ identities[1] = EmptyCache

----------------------------------------------------------------------------
(* Context.identity on one Context *)

IdentityContexts ==
    ContextPool
    \cup {<< <<"user", PyMap(<< <<"id", PyNone>> >>)>> >>,
          << <<"user", PyNone>>, <<"locale", PyStr("en")>> >>}

\* (keypath, seed) pairs asked for; ("user", ".ids1") and ("user.id", "s1")
\* concatenate to the same text, as do ("user.id", None) and ("user.id", "")
IdentityArgs ==
    {<<"random", "s1">>, <<"user", ".ids1">>, <<"user.id", "s1">>,
     <<"user.id", NONE>>, <<"user.id", "">>, <<"locale", "s1">>}

InitContext ==
    /\ experiments = <<>>
    /\ overrides = EmptyCache
    /\ data \in {<<d>> : d \in IdentityContexts}
    /\ identities = <<EmptyCache>>
    /\ names = 0
    /\ threads = <<>>
    /\ returned = EmptyCache
    /\ last = [op |-> "init", status |-> "return"]
    /\ settings = NoSettings
    /\ request = NoRequest

Call_Context_identity ==
    \E args \in IdentityArgs :
    \E draw \in DrawsFor(identities[1], args[1], args[2]) :
        LET r == Context_identity(identities[1], data[1], args[1], args[2],
                                  draw)
        IN  /\ identities' = [identities EXCEPT ![1] = r.identities]
            /\ returned' = IF r.exc = "" /\ args \notin DOMAIN returned
                           THEN returned @@ (args :> r.val)
                           ELSE returned
            /\ last' = [op |-> "Context.identity", status |-> "return",
                        keypath |-> args[1], seed |-> args[2],
                        exc |-> r.exc, val |-> r.val,
                        before |-> identities[1]]
            /\ UNCHANGED <<experiments, overrides, data, names, threads,
                           settings, request>>

NextContext == Call_Context_identity

SpecContext == InitContext /\ [][NextContext]_vars

\* C4: within one Context, every successful identity(keypath, seed) returns
\* what the first successful call with that pair returned, whatever calls
\* came in between, for keypath "random" too.
C4_SamePairSameIdentity ==
    (Returned("Context.identity") /\ last.exc = "")
    => /\ <<last.keypath, last.seed>> \in DOMAIN returned
       /\ returned[<<last.keypath, last.seed>>] = last.val
       /\ last.val \in 0..(HashBuckets - 1)

C4_Witness ==
    /\ Returned("Context.identity")
    /\ last.exc = ""
    /\ last.keypath = "random"
    /\ CacheKey(last.keypath, last.seed) \in DOMAIN last.before
    /\ Cardinality(DOMAIN last.before) >= 2

\* C10 as stated: for a keypath other than "random" that resolves to absent
\* or null in the context, identity(keypath, seed) raises, returns no
\* bucket and leaves the identity cache as it was.
C10_MissingIdentityRaises ==
    (/\ Returned("Context.identity")
     /\ last.keypath # "random"
     /\ get_key_by_path(PyMap(data[1]), last.keypath).t = "none")
    => /\ last.exc = "KeyError"
       /\ last.val = NONE
       /\ identities[1] = last.before

----------------------------------------------------------------------------
(* _CravensworthState: is_variant and export *)

\* dict.get(key): the value, or None
DictGet(dict, key) == IF key \in DOMAIN dict THEN dict[key] ELSE NONE

ExperimentNames(exps) == {exps[i].name : i \in 1..Len(exps)}

\* self._experiments.get(name), as an index into the dict's items (0: None)
ExperimentIndex(exps, name) ==
    IF name \in ExperimentNames(exps)
    THEN CHOOSE i \in 1..Len(exps) : exps[i].name = name
    ELSE 0

\* the variant argument of is_variant: a str or a list of str
VariantStr(v) == [list |-> FALSE, items |-> <<v>>]
VariantList(vs) == [list |-> TRUE, items |-> vs]

\* a variant of is_variant that indexes self._experiments[name]
State_is_variant_index(exps, ovs, c, d, ids, nm, name, variant, draw) ==
    LET i == ExperimentIndex(exps, name)
    IN  IF i = 0
        THEN [exc |-> "KeyError", val |-> FALSE, identities |-> ids,
              names |-> nm]
        ELSE LET r == Experiment_determine_variant(
                          exps[i], c, d, ids, nm,
                          DictGet(ovs, exps[i].name), draw)
             IN  [exc |-> r.exc,
                  val |-> r.exc = "" /\ Contains(variant.items, r.val),
                  identities |-> r.identities, names |-> r.names]

\* _CravensworthState.is_variant
State_is_variant(exps, ovs, c, d, ids, nm, name, variant, draw) ==
    LET i == ExperimentIndex(exps, name)
    IN  IF i = 0
        THEN [exc |-> "", val |-> FALSE, identities |-> ids, names |-> nm]
        ELSE LET r == Experiment_determine_variant(
                          exps[i], c, d, ids, nm,
                          DictGet(ovs, exps[i].name), draw)
             IN  [exc |-> r.exc,
                  val |-> r.exc = "" /\ Contains(variant.items, r.val),
                  identities |-> r.identities, names |-> r.names]

\* the loop of _CravensworthState.export from experiment i on; state is the
\* dict built so far, draws[i] what random.randint returns for experiment i
RECURSIVE ExportFrom(_, _, _, _, _, _, _, _, _)
ExportFrom(exps, ovs, c, d, ids, nm, i, state, draws) ==
    IF i > Len(exps)
    THEN [exc |-> "", val |-> state, identities |-> ids, names |-> nm]
    ELSE IF exps[i].name \notin DOMAIN ovs
    THEN [exc |-> "KeyError", val |-> EmptyCache, identities |-> ids,
          names |-> nm]
    ELSE LET r == Experiment_determine_variant(
                      exps[i], c, d, ids, nm, ovs[exps[i].name], draws[i])
         IN  IF r.exc # ""
             THEN [exc |-> r.exc, val |-> EmptyCache,
                   identities |-> r.identities, names |-> r.names]
             ELSE ExportFrom(exps, ovs, c, d, r.identities, r.names, i + 1,
                             [k \in DOMAIN state \cup {exps[i].name} |->
                                 IF k = exps[i].name THEN r.val
                                 ELSE state[k]],
                             draws)

State_export(exps, ovs, c, d, ids, nm, draws) ==
    ExportFrom(exps, ovs, c, d, ids, nm, 1, EmptyCache, draws)

MaxExperiments == 2

LoadedPool ==
    {Experiment("sw", "random", <<"on", "off">>,
                <<Aud(RuleNone, <<Alloc("on", 100)>>)>>, NONE),
     Experiment("exp", "user.id", <<"A", "B", "C">>,
                <<Aud(RuleEq("locale", "en"), ExampleAllocations),
                  Aud(RuleNone, <<Alloc("C", 100)>>)>>, "s1")}

\* the items of self._experiments: experiments with distinct names, in the
\* order the source's set yields them
LoadedExperiments ==
    {exps \in SeqsUpTo(LoadedPool, MaxExperiments) :
        \A i, j \in 1..Len(exps) : i # j => exps[i].name # exps[j].name}

OverrideMaps ==
    {EmptyCache,
     ("sw" :> "off"),
     ("sw" :> "off") @@ ("exp" :> "A"),
     ("sw" :> "maybe") @@ ("exp" :> "Z"),
     ("ghost" :> "on")}

IsVariantNames == {"sw", "exp", "ghost"}

IsVariantArgs ==
    {VariantStr("on"), VariantStr("C"), VariantList(<<"A", "B">>)}

\* every choice of one element from each set of a sequence of sets
RECURSIVE Choices(_)
Choices(sets) ==
    IF sets = <<>> THEN {<<>>}
    ELSE {<<x>> \o rest : x \in Head(sets), rest \in Choices(Tail(sets))}

InitState ==
    /\ experiments \in LoadedExperiments
    /\ overrides \in OverrideMaps
    /\ data \in {<<d>> : d \in ContextPool}
    /\ identities = <<EmptyCache>>
    /\ names = 0
    /\ threads = <<>>
    /\ returned = EmptyCache
    /\ last = [op |-> "init", status |-> "return"]
    /\ settings = NoSettings
    /\ request = NoRequest

Call_is_variant ==
    \E name \in IsVariantNames, variant \in IsVariantArgs :
    \E draw \in (IF ExperimentIndex(experiments, name) = 0 THEN {0}
                 ELSE LET e == experiments[ExperimentIndex(experiments, name)]
                      IN  DrawsFor(identities[1], e.identity, e.seed)) :
        LET r == State_is_variant(experiments, overrides, 1, data[1],
                                  identities[1], names, name, variant, draw)
        IN  /\ identities' = [identities EXCEPT ![1] = r.identities]
            /\ names' = r.names
            /\ last' = [op |-> "is_variant", status |-> "return",
                        name |-> name, variant |-> variant,
                        exc |-> r.exc, val |-> r.val,
                        before |-> identities[1]]
            /\ UNCHANGED <<experiments, overrides, data, threads, returned,
                           settings, request>>

Call_export ==
    \E draws \in Choices([i \in 1..Len(experiments) |->
                             DrawsFor(identities[1], experiments[i].identity,
                                      experiments[i].seed)]) :
        LET r == State_export(experiments, overrides, 1, data[1],
                              identities[1], names, draws)
        IN  /\ identities' = [identities EXCEPT ![1] = r.identities]
            /\ names' = r.names
            /\ last' = [op |-> "export", status |-> "return",
                        exc |-> r.exc, val |-> r.val,
                        before |-> identities[1]]
            /\ UNCHANGED <<experiments, overrides, data, threads, returned,
                           settings, request>>

NextState ==
    \/ Call_is_variant
    \/ Call_export

SpecState == InitState /\ [][NextState]_vars

\* what determine_variant resolves for experiment i of the state, given the
\* identities cached by now (a cached identity is not drawn again)
Resolves(i) ==
    Experiment_determine_variant(experiments[i], 1, data[1], identities[1],
                                 names,
                                 DictGet(overrides, experiments[i].name), 0)

\* what it resolves to before the call, where only its raising is asked
ResolvesBefore(i) ==
    Experiment_determine_variant(experiments[i], 1, data[1], last.before,
                                 names,
                                 DictGet(overrides, experiments[i].name), 0)

\* C7 as stated: whatever the overrides mapping holds (nothing, or some of
\* the experiments), export() returns a mapping whose keys are the names of
\* all known experiments, each with the variant determine_variant resolves
\* for it under its override, or under none; stated for the states in which
\* no experiment's determine_variant raises.
C7_ExportCoversAllExperiments ==
    (/\ Returned("export")
     /\ \A i \in 1..Len(experiments) : ResolvesBefore(i).exc = "")
    => /\ last.exc = ""
       /\ DOMAIN last.val = ExperimentNames(experiments)
       /\ \A i \in 1..Len(experiments) :
             last.val[experiments[i].name] = Resolves(i).val

\* C9: is_variant for a name that is not among the loaded experiments
\* returns false and raises nothing, whatever the variant argument, the
\* overrides (also when they name that experiment) and the context are, and
\* computes no identity.
C9_UnknownExperimentIsNonMatch ==
    (/\ Returned("is_variant")
     /\ last.name \notin ExperimentNames(experiments))
    => /\ last.exc = ""
       /\ last.val = FALSE
       /\ identities[1] = last.before

C9_Witness ==
    /\ Returned("is_variant")
    /\ last.name = "ghost"
    /\ "ghost" \in DOMAIN overrides
    /\ Len(experiments) >= 1
    /\ last.val = FALSE

----------------------------------------------------------------------------
(* _extract_overrides on malformed cookies *)

HasColon(token) == \E i \in 1..Len(token) : Char(token, i) = ":"

\* C8 as stated: extracting overrides raises nothing whatever the cookie
\* holds; a token that is no name:variant pair is skipped, and every
\* well-formed token of the cookie gives its name an entry.
C8_MalformedTokensSkipped ==
    Returned("_extract_overrides")
    => /\ last.exc = ""
       /\ (/\ ~(last.enabled_ips.set
                /\ last.request.addr \notin last.enabled_ips.ips)
           /\ last.request.cookie # NONE)
          => LET tokens == SplitWs(last.request.cookie, 1, "")
             IN  DOMAIN last.val =
                     {RSplit1(tokens[i], ":")[1] :
                         i \in {j \in 1..Len(tokens) : HasColon(tokens[j])}}

----------------------------------------------------------------------------
(* Concurrent evaluations, each thread on a Context of its own *)

NThreads == 2

Threads == 1..NThreads

ThreadExperiments ==
    {e \in ExperimentPool :
        e.identity = "user.id" /\ Experiment_validate(e) = ""}

InitThreads ==
    /\ experiments \in {<<e>> : e \in ThreadExperiments}
    /\ overrides = EmptyCache
    /\ data \in [Threads -> ContextPool]
    /\ identities = [t \in Threads |-> EmptyCache]
    /\ names = 0
    /\ threads = [t \in Threads |->
                     [pc |-> "loop", i |-> 1, exc |-> "", val |-> NONE]]
    /\ returned = EmptyCache
    /\ last = [op |-> "init", status |-> "return"]
    /\ settings = NoSettings
    /\ request = NoRequest

\* Experiment.determine_variant at the head of its audience loop, through
\* Audience.matches up to and including `self.evaluator.names = context`
Thread_loop(t) ==
    LET f == threads[t]
        e == experiments[1]
    IN  /\ f.pc = "loop"
        /\ IF f.i > Len(e.audiences)
           THEN /\ threads' = [threads EXCEPT ![t].pc = "done"]
                /\ names' = names
           ELSE IF e.audiences[f.i].rule.op = "none"
           THEN /\ threads' = [threads EXCEPT ![t].pc = "identity"]
                /\ names' = names
           ELSE /\ threads' = [threads EXCEPT ![t].pc = "eval"]
                /\ names' = t
        /\ UNCHANGED <<experiments, overrides, data, identities, returned,
                       last, settings, request>>

\* the rest of Audience.matches: evaluator.eval reads evaluator.names
Thread_eval(t) ==
    LET f == threads[t]
        e == experiments[1]
        m == matches_eval(e.audiences[f.i].rule, data[names])
    IN  /\ f.pc = "eval"
        /\ threads' =
              [threads EXCEPT ![t] =
                  IF m.exc # ""
                  THEN [f EXCEPT !.pc = "done", !.exc = m.exc]
                  ELSE IF m.val THEN [f EXCEPT !.pc = "identity"]
                  ELSE [f EXCEPT !.pc = "loop", !.i = @ + 1]]
        /\ UNCHANGED <<experiments, overrides, data, identities, names,
                       returned, last, settings, request>>

\* after a match: context.identity and audience.determine_variant
Thread_identity(t) ==
    LET f == threads[t]
        e == experiments[1]
    IN  /\ f.pc = "identity"
        /\ \E draw \in DrawsFor(identities[t], e.identity, e.seed) :
              LET r == Context_identity(identities[t], data[t], e.identity,
                                        e.seed, draw)
              IN  /\ identities' = [identities EXCEPT ![t] = r.identities]
                  /\ threads' =
                        [threads EXCEPT ![t] =
                            IF r.exc # ""
                            THEN [f EXCEPT !.pc = "done", !.exc = r.exc]
                            ELSE [f EXCEPT !.pc = "done",
                                           !.val = Audience_determine_variant(
                                                       e.audiences[f.i],
                                                       r.val)]]
        /\ UNCHANGED <<experiments, overrides, data, names, returned, last,
                       settings, request>>

NextThreads ==
    \E t \in Threads :
        \/ Thread_loop(t)
        \/ Thread_eval(t)
        \/ Thread_identity(t)

SpecThreads == InitThreads /\ [][NextThreads]_vars

\* what thread t's evaluation gives when it runs alone on its Context
Alone(t) ==
    Experiment_determine_variant(experiments[1], t, data[t], EmptyCache, 0,
                                 NONE, 0)

\* C5 as stated: evaluations over independent Contexts, interleaved at any
\* point, each end as they end when run one after the other: the same
\* variant, or the same error.
C5_ConcurrentAsSequential ==
    \A t \in Threads :
        threads[t].pc = "done"
        => /\ threads[t].exc = Alone(t).exc
           /\ threads[t].val = Alone(t).val

----------------------------------------------------------------------------
(* Audience.validate *)

\* s is one or more characters, each of [A-Za-z0-9_]
OnlyWordChars(s) ==
    /\ Len(s) >= 1
    /\ \A i \in 1..Len(s) : Char(s, i) \in WordChars

\* what an audience's allocations are required to be
AllocationsAsDocumented(as) ==
    /\ \A i \in 1..Len(as) :
          /\ OnlyWordChars(as[i].variant)
          /\ 0 <= as[i].percent
          /\ as[i].percent <= 100
    /\ SumPercent(as) = 100

\* C11: Audience.validate() succeeds if and only if every allocation's
\* variant is a non-empty string of [A-Za-z0-9_] characters, every percent is
\* in 0..100 and the percents sum to exactly 100; otherwise it fails with a
\* validation error.
C11_AudienceValidateIff ==
    Returned("Audience.validate")
    => /\ last.exc \in {"", "ValueError"}
       /\ last.exc = "" <=> AllocationsAsDocumented(last.audience.allocations)

----------------------------------------------------------------------------
(* SettingsSource: the EXPERIMENTS setting read into Experiments.  A read   *)
(* returns the experiments read in val, which is empty when it raises.      *)

\* an EXPERIMENTS entry: a str (the switch shorthand) or a dict
SwitchEntry(value) == [switch |-> value]
ObjectEntry(name, identity, variants, audiences, seed) ==
    [object |-> [name |-> name, identity |-> identity,
                 variants |-> [i \in 1..Len(variants) |->
                                  [name |-> variants[i]]],
                 audiences |-> audiences, seed |-> seed]]

IsSwitch(entry) == "switch" \in DOMAIN entry

\* SettingsSource._read_object(experiment); experiment.seed is NONE for a
\* dict without the key
read_object(experiment) ==
    LET variants == [i \in 1..Len(experiment.variants) |->
                        experiment.variants[i].name]
        audiences == [i \in 1..Len(experiment.audiences) |->
                         Aud(experiment.audiences[i].rule,
                             experiment.audiences[i].allocations)]
        e == Experiment(experiment.name, experiment.identity, variants,
                        audiences, experiment.seed)
    IN  IF \E i \in 1..Len(audiences) :
               \/ \E j \in 1..Len(audiences[i].allocations) :
                     Allocation_validate(audiences[i].allocations[j]) # ""
               \/ Audience_validate(audiences[i]) # ""
        THEN [exc |-> "ValueError", val |-> <<>>]
        ELSE IF Experiment_validate(e) # ""
        THEN [exc |-> "ValueError", val |-> <<>>]
        ELSE [exc |-> "", val |-> <<e>>]

\* a variant of _read_switch that allocates every switch to "on"
read_switch_always_on(value) ==
    LET parts == RSplit1(value, ":")
    IN  IF Len(parts) # 2 THEN [exc |-> "ValueError", val |-> <<>>]
        ELSE LET allocation == Alloc("on", 100)
                 audience == Aud(RuleNone, <<allocation>>)
                 e == Experiment(parts[1], "random", <<"on", "off">>,
                                 <<audience>>, NONE)
             IN  IF Experiment_validate(e) # ""
                 THEN [exc |-> "ValueError", val |-> <<>>]
                 ELSE [exc |-> "", val |-> <<e>>]

\* SettingsSource._read_switch(value)
read_switch(value) ==
    LET parts == RSplit1(value, ":")
    IN  IF Len(parts) # 2 THEN [exc |-> "ValueError", val |-> <<>>]
        ELSE LET allocation == Alloc(parts[2], 100)
                 audience == Aud(RuleNone, <<allocation>>)
                 e == Experiment(parts[1], "random", <<"on", "off">>,
                                 <<audience>>, NONE)
             IN  IF Allocation_validate(allocation) # ""
                 THEN [exc |-> "ValueError", val |-> <<>>]
                 ELSE IF Audience_validate(audience) # ""
                 THEN [exc |-> "ValueError", val |-> <<>>]
                 ELSE IF Experiment_validate(e) # ""
                 THEN [exc |-> "ValueError", val |-> <<>>]
                 ELSE [exc |-> "", val |-> <<e>>]

\* one iteration of SettingsSource.load: the entry read
ReadEntry(entry) ==
    IF IsSwitch(entry) THEN read_switch(entry.switch)
    ELSE read_object(entry.object)

\* the loop of SettingsSource.load from entry i on; read is the set built so
\* far, and r what reading entry i gave
RECURSIVE LoadFrom(_, _, _)
RECURSIVE LoadAdd(_, _, _, _)
LoadAdd(entries, i, read, r) ==
    IF r.exc # "" THEN [exc |-> r.exc, val |-> {}]
    ELSE LoadFrom(entries, i + 1, read \cup {r.val[1]})

LoadFrom(entries, i, read) ==
    IF i > Len(entries) THEN [exc |-> "", val |-> read]
    ELSE LoadAdd(entries, i, read, ReadEntry(entries[i]))

\* SettingsSource.load(): a set of Experiments
SettingsSource_load(stg) == LoadFrom(stg.EXPERIMENTS, 1, {})

\* the orders in which iterating a set can yield its elements
Orderings(S) ==
    {seq \in [1..Cardinality(S) -> S] :
        \A i, j \in 1..Cardinality(S) : i # j => seq[i] # seq[j]}

\* {e.name: e for e in experiments}, as the dict's items: a name keeps the
\* place of its first experiment and the value of its last
RECURSIVE DictByName(_, _, _)
DictByName(exps, i, items) ==
    IF i > Len(exps) THEN items
    ELSE IF exps[i].name \in ExperimentNames(items)
    THEN DictByName(exps, i + 1,
                    [items EXCEPT ![ExperimentIndex(items, exps[i].name)] =
                                      exps[i]])
    ELSE DictByName(exps, i + 1, Append(items, exps[i]))

----------------------------------------------------------------------------
(* One request: override_experiment, get_state, is_variant *)

\* DjangoRequestContextProvider.context(request=request).data;
\* request.anonymous is what get_tracking_key(request) returns
provider_context(req) ==
    << <<"user", req.user>>, <<"anonymous", PyStr(req.anonymous)>> >>

\* the _CravensworthState object a request holds, and the one it holds
\* before get_state has set it
StateOf(exps, ovs, d, ids) ==
    [experiments |-> exps, overrides |-> ovs, data |-> d, identities |-> ids]
NoState == StateOf(<<>>, EmptyCache, <<>>, <<>>)

\* the body of _StateResolver.resolve, given what load() and
\* _extract_overrides returned
Resolved(loaded, extracted, req, order) ==
    IF loaded.exc # "" THEN [exc |-> loaded.exc, state |-> NoState]
    ELSE IF extracted.exc # ""
    THEN [exc |-> extracted.exc, state |-> NoState]
    ELSE [exc |-> "",
          state |-> StateOf(DictByName(order, 1, <<>>), extracted.val,
                            <<provider_context(req)>>, <<EmptyCache>>)]

\* _StateResolver.resolve(request); order is the order in which the set
\* that load() returned is iterated
resolve(req, stg, order) ==
    Resolved(SettingsSource_load(stg),
             extract_overrides(req, stg.ENABLED_IPS), req, order)

\* set_state(request, state) with the outcome r of resolve: nothing is set
\* when resolve raised
set_state(req, st, r) ==
    IF r.exc # ""
    THEN [exc |-> r.exc, state |-> st, resolved |-> req.resolved]
    ELSE [exc |-> "", state |-> r.state, resolved |-> TRUE]

\* a variant of get_state that resolves on every call
get_state_every_call(req, st, stg, order) ==
    set_state(req, st, resolve(req, stg, order))

\* get_state(request): st is request._cravensworth_state where
\* req.resolved says the request has the attribute
get_state(req, st, stg, order) ==
    IF req.resolved THEN [exc |-> "", state |-> st, resolved |-> TRUE]
    ELSE set_state(req, st, resolve(req, stg, order))

\* the experiment argument of override_experiment: a str with the variant
\* argument (NONE when left out), a dict as its items, or something else
OverrideStr(name, variant) == [t |-> "str", name |-> name, variant |-> variant]
OverrideDict(items) == [t |-> "dict", items |-> items]
OverrideOther == [t |-> "other"]

make_override(name, value) == Str(name) \o ":" \o Str(value)

\* a variant of override_experiment whose dict form joins with a colon
override_experiment_colon_join(arg) ==
    IF arg.t = "str"
    THEN IF arg.variant = NONE THEN [exc |-> "ValueError", cookie |-> NONE]
         ELSE [exc |-> "", cookie |-> make_override(arg.name, arg.variant)]
    ELSE IF arg.t = "dict"
    THEN [exc |-> "",
          cookie |-> Join([i \in 1..Len(arg.items) |->
                              make_override(arg.items[i][1],
                                            arg.items[i][2])], ":")]
    ELSE [exc |-> "TypeError", cookie |-> NONE]

\* override_experiment(request, experiment, variant): the cookie it stores
override_experiment(arg) ==
    IF arg.t = "str"
    THEN IF arg.variant = NONE THEN [exc |-> "ValueError", cookie |-> NONE]
         ELSE [exc |-> "", cookie |-> make_override(arg.name, arg.variant)]
    ELSE IF arg.t = "dict"
    THEN [exc |-> "",
          cookie |-> Join([i \in 1..Len(arg.items) |->
                              make_override(arg.items[i][1],
                                            arg.items[i][2])], " ")]
    ELSE [exc |-> "TypeError", cookie |-> NONE]

SwitchObject(name, variant) ==
    ObjectEntry(name, "random", <<"on", "off">>,
                <<Aud(RuleNone, <<Alloc(variant, 100)>>)>>, NONE)

ExpEntry ==
    ObjectEntry("exp", "anonymous", <<"A", "B", "C">>,
                <<Aud(RuleEq("anonymous", "k1"), ExampleAllocations),
                  Aud(RuleNone, <<Alloc("C", 100)>>)>>, "s1")

ColEntry ==
    ObjectEntry("col", "anonymous", <<"red", "blue">>,
                <<Aud(RuleNone, <<Alloc("red", 50), Alloc("blue", 50)>>)>>,
                NONE)

RndEntry ==
    ObjectEntry("rnd", "random", <<"A", "B">>,
                <<Aud(RuleNone, <<Alloc("A", 50), Alloc("B", 50)>>)>>, NONE)

SettingsPool ==
    {[EXPERIMENTS |-> es, ENABLED_IPS |-> ips] :
        es \in {<<SwitchEntry("sw:on")>>,
                <<SwitchEntry("sw:off")>>,
                <<RndEntry>>,
                <<ExpEntry, ColEntry>>,
                <<SwitchEntry("sw:maybe")>>},
        ips \in EnabledIpsPool}

\* the requests served: the client's address and cookie, no state resolved
ServedRequests ==
    {[cookie |-> c, addr |-> a, user |-> PyNone, anonymous |-> "k1",
      resolved |-> FALSE] :
        c \in {NONE, "sw"}, a \in {"10.0.0.1", "10.0.0.2"}}

OverrideExperimentArgs ==
    {OverrideStr("sw", "off"), OverrideStr("sw", NONE),
     OverrideDict(<< <<"sw", "on">>, <<"exp", "B">>, <<"rnd", "B">> >>),
     OverrideOther}

RequestIsVariantArgs ==
    {<<"sw", VariantStr("on")>>, <<"sw", VariantStr("off")>>,
     <<"exp", VariantStr("B")>>, <<"rnd", VariantStr("B")>>}

InitRequest ==
    /\ experiments = <<>>
    /\ overrides = EmptyCache
    /\ data = <<>>
    /\ identities = <<>>
    /\ names = 0
    /\ threads = <<>>
    /\ returned = EmptyCache
    /\ last = [op |-> "init", status |-> "return"]
    /\ settings \in SettingsPool
    /\ request \in ServedRequests

\* override_experiment(request, ...) of cravensworth.core.testing
Call_override_experiment ==
    \E arg \in OverrideExperimentArgs :
        LET r == override_experiment(arg)
        IN  /\ request' = IF r.exc # "" THEN request
                          ELSE [request EXCEPT !.cookie = r.cookie]
            /\ last' = [op |-> "override_experiment", status |-> "return",
                        arg |-> arg, exc |-> r.exc,
                        resolved |-> request.resolved]
            /\ UNCHANGED <<experiments, overrides, data, identities, names,
                           threads, returned, settings>>

\* the variant state.is_variant determined, given its outcome r: None when
\* the experiment is unknown or the call raised
ActiveVariant(st, r, nm, name) ==
    IF ExperimentIndex(st.experiments, name) = 0 \/ r.exc # "" THEN NONE
    ELSE Experiment_determine_variant(
             st.experiments[ExperimentIndex(st.experiments, name)], 1,
             st.data[1], r.identities, nm, DictGet(st.overrides, name), 0).val

\* the return of is_variant(request, name, variant): g is what get_state
\* gave, r what state.is_variant gave and active the variant it determined
IsVariantReturns(g, r, active, name, variant) ==
    /\ experiments' = g.state.experiments
    /\ overrides' = g.state.overrides
    /\ data' = g.state.data
    /\ identities' = <<r.identities>>
    /\ names' = r.names
    /\ request' = [request EXCEPT !.resolved = g.resolved]
    /\ returned' = IF active = NONE \/ name \in DOMAIN returned
                   THEN returned
                   ELSE returned @@ (name :> active)
    /\ last' = [op |-> "experiment.is_variant", status |-> "return",
                name |-> name, variant |-> variant, exc |-> r.exc,
                val |-> r.val, active |-> active]
    /\ UNCHANGED <<threads, settings>>

\* state.is_variant(name, variant) on the state st that get_state gave
IsVariantOn(g, st, name, variant) ==
    \E draw \in (IF ExperimentIndex(st.experiments, name) = 0 THEN {0}
                 ELSE LET e == st.experiments[ExperimentIndex(st.experiments,
                                                              name)]
                      IN  DrawsFor(st.identities[1], e.identity, e.seed)) :
        IsVariantReturns(
            g,
            State_is_variant(st.experiments, st.overrides, 1, st.data[1],
                             st.identities[1], names, name, variant, draw),
            ActiveVariant(
                st,
                State_is_variant(st.experiments, st.overrides, 1, st.data[1],
                                 st.identities[1], names, name, variant,
                                 draw),
                names, name),
            name, variant)

\* is_variant(request, name, variant) where get_state raised
IsVariantRaises(g, name, variant) ==
    /\ last' = [op |-> "experiment.is_variant", status |-> "return",
                name |-> name, variant |-> variant, exc |-> g.exc,
                val |-> FALSE, active |-> NONE]
    /\ UNCHANGED <<experiments, overrides, data, identities, names, threads,
                   returned, settings, request>>

\* is_variant(request, name, variant), given what get_state(request) gave
IsVariantWith(g, name, variant) ==
    IF g.exc # "" THEN IsVariantRaises(g, name, variant)
    ELSE IsVariantOn(g, g.state, name, variant)

\* is_variant(request, name, variant) of cravensworth.core.experiment:
\* get_state(request), then state.is_variant(name, variant)
Call_request_is_variant ==
    \E args \in RequestIsVariantArgs :
    \E order \in (IF request.resolved THEN {<<>>}
                  ELSE Orderings(SettingsSource_load(settings).val)) :
        IsVariantWith(get_state(request,
                                StateOf(experiments, overrides, data,
                                        identities),
                                settings, order),
                      args[1], args[2])

NextRequest ==
    \/ Call_override_experiment
    \/ Call_request_is_variant

SpecRequest == InitRequest /\ [][NextRequest]_vars

----------------------------------------------------------------------------
(* The switch shorthand *)

\* the Experiment that the structured definition of a switch describes
SwitchExperiment(name, variant) ==
    [name |-> name, identity |-> "random", variants |-> <<"on", "off">>,
     audiences |-> <<Aud(RuleNone, <<Alloc(variant, 100)>>)>>,
     seed |-> name]

\* C12: an EXPERIMENTS entry "name:variant" with variant on or off is loaded
\* as the Experiment that the structured definition {name, identity
\* "random", variants (on, off), one ruleless audience allocating 100 to
\* variant} is loaded as, its seed being the name; and for a request with no
\* override of it, is_variant(request, name, variant) is true and
\* is_variant(request, name, the other value) is false.
C12_SwitchShorthand ==
    (Returned("experiment.is_variant") /\ request.resolved)
    => \A k \in 1..Len(settings.EXPERIMENTS) :
       \A variant \in {"on", "off"} :
          LET entry == settings.EXPERIMENTS[k]
              name == "sw"
          IN  (IsSwitch(entry) /\ entry.switch = name \o ":" \o variant)
              => /\ Contains(experiments, SwitchExperiment(name, variant))
                 /\ read_object(SwitchObject(name, variant).object)
                    = [exc |-> "", val |-> <<SwitchExperiment(name, variant)>>]
                 /\ (last.name = name /\ name \notin DOMAIN overrides)
                    => /\ last.exc = ""
                       /\ last.val = Contains(last.variant.items, variant)

C12_Witness ==
    /\ Returned("experiment.is_variant")
    /\ request.resolved
    /\ settings.EXPERIMENTS = <<SwitchEntry("sw:off")>>
    /\ overrides = EmptyCache
    /\ last.name = "sw"
    /\ last.variant = VariantStr("off")
    /\ last.val = TRUE

----------------------------------------------------------------------------
(* override_experiment, then the first resolution of the request's state *)

\* the name -> variant pairs given to override_experiment
RECURSIVE PairsOf(_)
PairsOf(items) ==
    IF items = <<>> THEN EmptyCache
    ELSE (items[Len(items)][1] :> items[Len(items)][2])
         @@ PairsOf(SubSeq(items, 1, Len(items) - 1))

GivenPairs(arg) ==
    IF arg.t = "str" THEN (arg.name :> arg.variant) ELSE PairsOf(arg.items)

IpBlocked ==
    settings.ENABLED_IPS.set /\ request.addr \notin settings.ENABLED_IPS.ips

\* a step that resolves the request's state right after a successful
\* override_experiment
ResolvesAfterOverride ==
    /\ last.op = "override_experiment"
    /\ last.exc = ""
    /\ ~request.resolved
    /\ request'.resolved

\* in that step: the overrides are the pairs given, and is_variant is true
\* for an overridden experiment and the variant given for it, if declared
GivenPairsApply ==
    /\ overrides' = GivenPairs(last.arg)
    /\ \A i \in 1..Len(experiments') :
          LET e == experiments'[i]
          IN  (/\ e.name \in DOMAIN GivenPairs(last.arg)
               /\ Contains(e.variants, GivenPairs(last.arg)[e.name])
               /\ last'.name = e.name)
              => /\ last'.exc = ""
                 /\ last'.active = GivenPairs(last.arg)[e.name]
                 /\ last'.val = Contains(last'.variant.items,
                                         GivenPairs(last.arg)[e.name])

\* C13 as stated: after override_experiment(request, name, v), or the dict
\* form with several entries, on a request whose state is not resolved yet,
\* the overrides extracted when the state is resolved are exactly the pairs
\* given, and is_variant(request, name, v) is true for every overridden
\* experiment that declares v.
C13_OverridesAreGivenPairs ==
    [][ResolvesAfterOverride => GivenPairsApply]_vars

\* C13 amended: the same, for a request that IP restriction does not block
\* (ENABLED_IPS is not set, or the request's address is in it).
C13_OverridesAreGivenPairsUnlessBlocked ==
    [][(ResolvesAfterOverride /\ ~IpBlocked) => GivenPairsApply]_vars

C13_Witness ==
    /\ Returned("experiment.is_variant")
    /\ request.resolved
    /\ request.cookie = "sw:on exp:B rnd:B"
    /\ overrides = ("sw" :> "on") @@ ("exp" :> "B") @@ ("rnd" :> "B")
    /\ settings.EXPERIMENTS = <<SwitchEntry("sw:off")>>
    /\ last.name = "sw"
    /\ last.variant = VariantStr("on")
    /\ last.val = TRUE

----------------------------------------------------------------------------
(* IP restriction of overrides *)

\* the overrides a cookie of name:variant tokens spells out: for each name
\* the variant of its last token
CookieOverrides(cookie) ==
    LET tokens == IF cookie = NONE THEN <<>> ELSE SplitWs(cookie, 1, "")
        name(i) == RSplit1(tokens[i], ":")[1]
    IN  [n \in {name(i) : i \in 1..Len(tokens)} |->
            LET k == CHOOSE i \in 1..Len(tokens) :
                        /\ name(i) = n
                        /\ \A j \in (i + 1)..Len(tokens) : name(j) # n
            IN  RSplit1(tokens[k], ":")[2]]

\* a step in which is_variant(request, name, variant) is called
IsVariantStep == last'.op = "experiment.is_variant" /\ last' # last

\* the call ends as state.is_variant ends with no overrides at all
AsWithoutOverrides ==
    \E draw \in RandomDraws :
        LET r == State_is_variant(
                     experiments', EmptyCache, 1, data'[1],
                     IF request.resolved THEN identities[1] ELSE EmptyCache,
                     names, last'.name, last'.variant, draw)
        IN  /\ last'.exc = r.exc
            /\ last'.val = r.val

\* C14: on a request that IP restriction blocks (ENABLED_IPS is set and
\* REMOTE_ADDR is not in it) the extracted overrides are empty whatever the
\* cookie holds, nothing is raised because of the cookie, and is_variant
\* ends as it ends with no overrides; on any other request the state
\* resolved holds the overrides the cookie spells out.
C14_BlockedRequestIgnoresCookie ==
    [][IsVariantStep
       => IF IpBlocked
          THEN /\ ~request'.resolved
                  => SettingsSource_load(settings).exc # ""
               /\ request'.resolved
                  => /\ overrides' = EmptyCache
                     /\ AsWithoutOverrides
          ELSE (~request.resolved /\ request'.resolved)
               => overrides' = CookieOverrides(request.cookie)]_vars

C14_Witness ==
    /\ Returned("experiment.is_variant")
    /\ IpBlocked
    /\ request.resolved
    /\ request.cookie = "sw"
    /\ overrides = EmptyCache
    /\ settings.EXPERIMENTS = <<SwitchEntry("sw:on")>>
    /\ last.name = "sw"
    /\ last.variant = VariantStr("on")
    /\ last.val = TRUE

----------------------------------------------------------------------------
(* Experiment.validate: declared variants *)

\* some allocation of some audience names a variant that is not declared
NamesUndeclaredVariant(e) ==
    \E i \in 1..Len(e.audiences) :
       \E j \in 1..Len(e.audiences[i].allocations) :
          ~Contains(e.variants, e.audiences[i].allocations[j].variant)

\* every check but the one for declared variants passes
ValidButForDeclaredVariants(e) ==
    /\ validate_name(e) = ""
    /\ validate_identity(e) = ""
    /\ validate_variants(e) = ""
    /\ Len(e.audiences) >= 1
    /\ ~HasRule(e.audiences[Len(e.audiences)])
    /\ ~RulelessBeforeLast(e)
    /\ \A i \in 1..Len(e.audiences) :
          \A j \in 1..Len(e.audiences[i].allocations) :
             Allocation_validate(e.audiences[i].allocations[j]) = ""

\* C15: Experiment.validate() fails with a validation error whenever an
\* allocation of one of its audiences names a variant that is not among the
\* experiment's variants; an experiment that is valid otherwise is rejected
\* only then.
C15_UndeclaredVariantRejected ==
    Returned("Experiment.validate")
    => LET e == last.experiment
       IN  /\ NamesUndeclaredVariant(e) => last.exc = "ValueError"
           /\ ValidButForDeclaredVariants(e)
              => (last.exc = "ValueError" <=> NamesUndeclaredVariant(e))

C15_Witness ==
    /\ Returned("Experiment.validate")
    /\ ValidButForDeclaredVariants(last.experiment)
    /\ last.experiment.variants = <<"A">>
    /\ last.experiment.audiences = <<Aud(RuleNone, ExampleAllocations)>>
    /\ last.exc = "ValueError"

----------------------------------------------------------------------------
(* Experiment.determine_variant: order of evaluation *)

\* what Audience.matches gives for audience a on context data d
MatchOf(a, d) ==
    IF ~HasRule(a) THEN [exc |-> "", val |-> TRUE] ELSE matches_eval(a.rule, d)

\* C16: without a valid override, determine_variant calls matches on the
\* audiences in declared order and stops at the first that matches, which
\* decides the result: no later audience is evaluated.  The identity is
\* computed and cached only after a match, so a call in which no audience
\* matches, or in which a rule raises, leaves the identity cache as it was.
C16_FirstMatchDecides ==
    (/\ Returned("Experiment.determine_variant")
     /\ ~OverrideApplies(last.experiment, last.override))
    => LET e == last.experiment
           k == Len(last.evaluated)
       IN  /\ last.evaluated = [i \in 1..k |-> i]
           /\ \A i \in 1..k :
                 i < k => /\ MatchOf(e.audiences[i], data[1]).exc = ""
                          /\ ~MatchOf(e.audiences[i], data[1]).val
           /\ last.matched >= 1
              => /\ last.matched = k
                 /\ MatchOf(e.audiences[k], data[1]).val
                 /\ last.exc = ""
                    => /\ CacheKey(e.identity, e.seed) \in DOMAIN identities[1]
                       /\ last.val = Audience_determine_variant(
                              e.audiences[k],
                              identities[1][CacheKey(e.identity, e.seed)])
           /\ last.matched = 0
              => /\ identities[1] = last.before
                 /\ last.val = NONE
                 /\ last.exc = ""
                    => /\ k = Len(e.audiences)
                       /\ k >= 1 => ~MatchOf(e.audiences[k], data[1]).val
                 /\ last.exc # ""
                    => MatchOf(e.audiences[k], data[1]).exc = last.exc

C16_Witness ==
    /\ Returned("Experiment.determine_variant")
    /\ last.override = NONE
    /\ Len(last.experiment.audiences) = 2
    /\ HasRule(last.experiment.audiences[1])
    /\ MatchOf(last.experiment.audiences[2], data[1]).exc # ""
    /\ last.matched = 1
    /\ last.evaluated = <<1>>
    /\ last.exc = ""
    /\ last.before = EmptyCache
    /\ identities[1] # EmptyCache

----------------------------------------------------------------------------
(* Overrides that are not declared variants *)

\* what random.randint returned in the call made last, if it was called
DrawMade ==
    LET cachekey == CacheKey(last.experiment.identity, last.experiment.seed)
    IN  IF cachekey \in DOMAIN identities[1] THEN identities[1][cachekey]
        ELSE 0

\* the call made last, made with no override instead
Unoverridden ==
    Experiment_determine_variant(last.experiment, 1, data[1], last.before,
                                 last.names_before, NONE, DrawMade)

\* C17: with an override that is not one of the experiment's variants,
\* determine_variant ends exactly as it ends with no override: the same
\* variant or the same error of the evaluation, the same identity cache,
\* and nothing raised because of the override.  A state's is_variant and
\* export, given that override for the experiment, give what they give
\* for the variant determined with no override.
C17_UndeclaredOverrideIgnored ==
    (/\ Returned("Experiment.determine_variant")
     /\ last.override # NONE
     /\ ~Contains(last.experiment.variants, last.override))
    => LET e == last.experiment
           ovs == (e.name :> last.override)
           exported == State_export(<<e>>, ovs, 1, data[1], last.before,
                                    last.names_before, <<DrawMade>>)
       IN  /\ last.exc = Unoverridden.exc
           /\ last.val = Unoverridden.val
           /\ identities[1] = Unoverridden.identities
           /\ \A variant \in IsVariantArgs \cup {VariantStr(last.override)} :
                 LET r == State_is_variant(<<e>>, ovs, 1, data[1],
                                           last.before, last.names_before,
                                           e.name, variant, DrawMade)
                 IN  /\ r.exc = Unoverridden.exc
                     /\ r.val = (/\ Unoverridden.exc = ""
                                 /\ Contains(variant.items, Unoverridden.val))
           /\ exported.exc = Unoverridden.exc
           /\ exported.exc = "" => exported.val[e.name] = Unoverridden.val

C17_Witness ==
    /\ Returned("Experiment.determine_variant")
    /\ last.override = "Z"
    /\ last.experiment.variants = <<"A", "B", "C">>
    /\ last.experiment.identity = "random"
    /\ last.before = EmptyCache
    /\ last.matched = 1
    /\ last.exc = ""
    /\ last.val = "B"

----------------------------------------------------------------------------
(* The state of a request is resolved once *)

\* a step keeps the state the request holds: its experiments, overrides
\* and context, and every identity cached so far
StateKept ==
    /\ request'.resolved
    /\ experiments' = experiments
    /\ overrides' = overrides
    /\ data' = data
    /\ \A k \in DOMAIN identities[1] :
          /\ k \in DOMAIN identities'[1]
          /\ identities'[1][k] = identities[1][k]

\* C18: once get_state has resolved the state of a request, every later
\* call reuses it: no step changes its experiments, overrides or context
\* or a cached identity, whatever is done to the override cookie, and every
\* is_variant call for an experiment resolves the variant that the first
\* call for that experiment resolved, for identity "random" too.
C18_ResolvedOnce ==
    [][request.resolved
       => /\ StateKept
          /\ (/\ IsVariantStep
              /\ last'.exc = ""
              /\ last'.name \in DOMAIN returned)
             => last'.active = returned[last'.name]]_vars

C18_Witness ==
    /\ Returned("experiment.is_variant")
    /\ settings.EXPERIMENTS = <<RndEntry>>
    /\ ~IpBlocked
    /\ request.resolved
    /\ request.cookie = "sw:on exp:B rnd:B"
    /\ overrides = EmptyCache
    /\ last.name = "rnd"
    /\ last.exc = ""
    /\ last.active = "A"
    /\ "rnd" \in DOMAIN returned
    /\ returned["rnd"] = "A"

----------------------------------------------------------------------------
(* What Experiment.validate alone guarantees *)

\* C19 as stated: whenever Experiment.validate() succeeds on the experiment,
\* with no validate() of its audiences asked for, a determine_variant call
\* that raises nothing returns one of the experiment's variants, never
\* absent, whatever the context and the identity in 0..99 are.
C19_ExperimentValidateSuffices ==
    (/\ Returned("Experiment.determine_variant")
     /\ last.exc = ""
     /\ Experiment_validate(last.experiment) = "")
    => /\ last.val # NONE
       /\ Contains(last.experiment.variants, last.val)

----------------------------------------------------------------------------
(* What an evaluation changes *)

\* C20 as stated: a determine_variant call changes nothing but the identity
\* cache of the Context passed to it: the context's data, the Experiment
\* with its Audiences and Allocations, and the state the audiences share
\* (the evaluator's names) are after the call what they were before it.
C20_OnlyIdentityCacheChanges ==
    [][last'.op = "Experiment.determine_variant"
       => /\ data' = data
          /\ experiments' = experiments
          /\ names' = names]_vars

----------------------------------------------------------------------------
(* The identity cache and distinct (keypath, seed) pairs *)

\* C21 as stated: for a keypath other than "random" whose value is present
\* in the context, identity(keypath, seed) raises nothing and returns the
\* hash of that value's string followed by the seed, modulo 100, whichever
\* other (keypath, seed) pairs were asked for earlier on the same Context.
C21_CacheKeepsPairsApart ==
    (/\ Returned("Context.identity")
     /\ last.keypath # "random"
     /\ get_key_by_path(PyMap(data[1]), last.keypath).t # "none")
    => /\ last.exc = ""
       /\ last.val = calculate_identity(data[1], last.keypath, last.seed,
                                        0).val

====
